---- MODULE Spec2Model ----
(***************************************************************************)
(* Model of sac::cost (src/user/cost.hpp): the trajectory tracking cost    *)
(* J1 = integral_{t0}^{tf} l(x(t)) dt + m(x(tf)).                          *)
(*                                                                         *)
(* Numbers.  Times are integers counted in units of 1e-7 s, the eps of     *)
(* compute_cost, so that tf_ - eps is representable.  Cost values (the     *)
(* doubles held in J1_ and returned by get_term_cost) are fixed-point      *)
(* integers counted in units of 1e-7 cost, so that a running cost rate of  *)
(* c cost/s integrated over d time units adds exactly c*d.  State          *)
(* components, the entries of P and the gradient are plain integers;       *)
(* angles are counted in units of pi/HalfTurn.                             *)
(***************************************************************************)
EXTENDS Integers, Sequences, FiniteSets, TLC

\* ---- program constants ---------------------------------------------------
Eps == 1                \* double eps = 1E-7              (1 time unit)
Dt0 == 100000           \* initial step size 0.01         (time units)
AbsTol == 100           \* make_controlled( 1E-5 , ...)   (cost units)
xlen == 2               \* length of the state vector
HalfTurn == 4           \* angle units per half turn (pi)
Second == 100 * Dt0     \* time units per second = cost units per unit cost

\* ---- bounds of the model -------------------------------------------------
MaxTick == 1            \* window bounds range over 0..MaxTick half seconds
MaxRate == 1            \* running cost rates range over 1..MaxRate

Tick == Second \div 2
Times == {k * Tick : k \in 0..MaxTick}
Rates == 1..MaxRate

Abs(n) == IF n < 0 THEN -n ELSE n

\* ---- collaborators -------------------------------------------------------
\* x_wrap: the indices of the state components that are angles.
x_wrap == <<1>>
wrap_size_ == Len(x_wrap)

\* AngleWrap: the equivalent angle in (-HalfTurn, HalfTurn].
AngleWrap(a) == ((a + HalfTurn - 1) % (2 * HalfTurn)) - (HalfTurn - 1)

\* State2Mat: copies the state vector into the column vector of the cost.
State2Mat(x) == [i \in 1..xlen |-> x[i]]

\* The trajectories a state interpolator may hold: the covered time range
\* [lo, hi] and the state at tick k, <<a + w*k, p + v*k>>.
Trajs ==
  { [lo |-> 0,    hi |-> MaxTick * Tick, a |-> 5,  w |-> 2,  p |-> 0, v |-> 1],
    [lo |-> Tick, hi |-> MaxTick * Tick, a |-> -1, w |-> -3, p |-> 1, v |-> -1],
    [lo |-> 0,    hi |-> 0,              a |-> 2,  w |-> 1,  p |-> 3, v |-> 0] }

\* state_intp::operator(): can the interpolator produce a state at time t?
Covers(tr, t) == tr.lo <= t /\ t <= tr.hi

\* state_intp::operator(): the state at time t (of a covered t).
Sample(tr, t) == <<tr.a + tr.w * (t \div Tick), tr.p + tr.v * (t \div Tick)>>

\* get_DesTraj: the desired state at time t, <<1, 1 + k>> at tick k.
get_DesTraj(t) == <<1, 1 + (t \div Tick)>>

\* The values of the symmetric cost matrix P, as <<P11, P12, P22>>.
Ps == { <<1, 0, 1>>, <<2, 1, 1>> }

\* inc_cost: the window [t0, tf] and the (constant) running cost rate c.
Lofxs == [t0 : Times, tf : Times, c : Rates]
begin(lf) == lf.t0
end(lf) == lf.tf

\* d^T P: the row vector (mx_tf_ - mxdes_tf_)^T * P
RowTimesP(d, Pm) == <<d[1] * Pm[1] + d[2] * Pm[2], d[1] * Pm[2] + d[2] * Pm[3]>>

\* (d^T P d)[0], as a cost value
QuadForm(d, Pm) ==
  (RowTimesP(d, Pm)[1] * d[1] + RowTimesP(d, Pm)[2] * d[2]) * Second

\* the angle wrapping loop of get_term_cost / get_dmdx
RECURSIVE WrapLoop(_, _)
WrapLoop(x, indx) ==
  IF indx < wrap_size_
    THEN WrapLoop([x EXCEPT ![x_wrap[indx + 1]] = AngleWrap(@)], indx + 1)
    ELSE x


\* ---- the cost object -----------------------------------------------------
VARIABLES
  J1_,          \* state_type of size 1: terminal cost, then the total cost
  J1steps_,     \* number of integration steps of the last compute_cost
  t0_, tf_,     \* window bounds read from m_lofx
  x_tf_,        \* scratch: state at the final time
  mx_tf_,       \* scratch: projected state at the final time
  mxdes_tf_,    \* scratch: desired state at the final time
  m_lofx,       \* the running cost integrand (window and rate)
  m_x_intp,     \* the trajectory held by the state interpolator
  P,            \* the terminal cost matrix
  \* ---- observation of the last call (history variables) ----
  lastOp,       \* "none", "set", "update", "get_dmdx", "get_term_cost",
                \* "compute_cost", "double", "steps"
  outcome,      \* "ok" or the failure the call ended with
  ret,          \* what the call returned (<<>> when nothing)
  sampledAt,    \* the time handed to m_x_intp and get_DesTraj (-1: none)
  integ,        \* <<from, to>> handed to integrate_adaptive (<<>>: not run)
  valid,        \* has an update() returned yet? (Uninitialized / Valid)
  reps          \* update() calls since the inputs last changed: 0, 1, 2 (or more)

obj == <<J1_, J1steps_, t0_, tf_, x_tf_, mx_tf_, mxdes_tf_>>
env == <<m_lofx, m_x_intp, P>>
hist == <<lastOp, outcome, ret, sampledAt, integ, valid, reps>>
vars == <<obj, env, hist>>

\* the object's members as a record, for the operators below
self ==
  [J1_ |-> J1_, J1steps_ |-> J1steps_, t0_ |-> t0_, tf_ |-> tf_,
   x_tf_ |-> x_tf_, mx_tf_ |-> mx_tf_, mxdes_tf_ |-> mxdes_tf_]

VecSub(a, b) == [i \in 1..xlen |-> a[i] - b[i]]

\* get_term_cost with the final time clamped into the interpolator's range
get_term_cost_clamp(s, lf, tr, Pm) ==
  LET s1 == [s EXCEPT !.t0_ = begin(lf), !.tf_ = end(lf)]
      tc == IF s1.tf_ < tr.lo THEN tr.lo ELSE IF s1.tf_ > tr.hi THEN tr.hi ELSE s1.tf_
      x  == WrapLoop(Sample(tr, tc), 0)
      mx == State2Mat(x)
      md == get_DesTraj(s1.tf_)
  IN [ok |-> TRUE,
      self |-> [s1 EXCEPT !.x_tf_ = x, !.mx_tf_ = mx, !.mxdes_tf_ = md],
      val |-> QuadForm(VecSub(mx, md), Pm),
      at |-> tc]

\* cost::get_term_cost.  ok = FALSE: m_x_intp threw at line 48.
get_term_cost(s, lf, tr, Pm) ==
  LET s1 == [s EXCEPT !.t0_ = begin(lf), !.tf_ = end(lf)]
  IN IF ~Covers(tr, s1.tf_)
       THEN [ok |-> FALSE, self |-> s1, val |-> 0, at |-> s1.tf_]
       ELSE LET x  == WrapLoop(Sample(tr, s1.tf_), 0)
                mx == State2Mat(x)
                md == get_DesTraj(s1.tf_)
            IN [ok |-> TRUE,
                self |-> [s1 EXCEPT !.x_tf_ = x, !.mx_tf_ = mx, !.mxdes_tf_ = md],
                val |-> QuadForm(VecSub(mx, md), Pm),
                at |-> s1.tf_]

\* get_dmdx without lines 61-62: samples at the tf_ of the previous call
get_dmdx_stale(s, lf, tr, Pm) ==
  IF ~Covers(tr, s.tf_)
    THEN [ok |-> FALSE, self |-> s, val |-> <<>>, at |-> s.tf_]
    ELSE LET x  == WrapLoop(Sample(tr, s.tf_), 0)
             mx == State2Mat(x)
             md == get_DesTraj(s.tf_)
         IN [ok |-> TRUE,
             self |-> [s EXCEPT !.x_tf_ = x, !.mx_tf_ = mx, !.mxdes_tf_ = md],
             val |-> RowTimesP(VecSub(mx, md), Pm),
             at |-> s.tf_]

\* get_dmdx without lines 63-66: reuses the scratch of the last evaluation
get_dmdx_cached(s, lf, tr, Pm) ==
  LET s1 == [s EXCEPT !.t0_ = begin(lf), !.tf_ = end(lf)]
  IN IF ~Covers(tr, s1.tf_)
       THEN [ok |-> FALSE, self |-> s1, val |-> <<>>, at |-> s1.tf_]
       ELSE [ok |-> TRUE, self |-> s1,
             val |-> RowTimesP(VecSub(s1.mx_tf_, s1.mxdes_tf_), Pm),
             at |-> s1.tf_]

\* cost::get_dmdx.  ok = FALSE: m_x_intp threw at line 63.
get_dmdx(s, lf, tr, Pm) ==
  LET s1 == [s EXCEPT !.t0_ = begin(lf), !.tf_ = end(lf)]
  IN IF ~Covers(tr, s1.tf_)
       THEN [ok |-> FALSE, self |-> s1, val |-> <<>>, at |-> s1.tf_]
       ELSE LET x  == WrapLoop(Sample(tr, s1.tf_), 0)
                mx == State2Mat(x)
                md == get_DesTraj(s1.tf_)
            IN [ok |-> TRUE,
                self |-> [s1 EXCEPT !.x_tf_ = x, !.mx_tf_ = mx, !.mxdes_tf_ = md],
                val |-> RowTimesP(VecSub(mx, md), Pm),
                at |-> s1.tf_]

\* controlled_runge_kutta< runge_kutta_dopri5 >::try_step on dJ/dt = c.
\* Every stage evaluates m_lofx in [t, t + dt], which samples the
\* interpolator there (ok = FALSE: it threw).  All stages equal c, so the
\* step is exact, the error estimate is below 1/2, the step is accepted and
\* dt grows by 9/10 * 5.
try_step(lf, tr, x, t, dt) ==
  IF ~(Covers(tr, t) /\ Covers(tr, t + dt))
    THEN [ok |-> FALSE, x |-> x, t |-> t, dt |-> dt]
    ELSE [ok |-> TRUE, x |-> x + lf.c * dt, t |-> t + dt, dt |-> (dt * 9) \div 2]

\* boost::numeric::odeint::integrate_adaptive, controlled stepper:
\* while (t < end) { if (end < t + dt) dt = end - t; try_step; ++count; }
RECURSIVE integrate_adaptive(_, _, _, _, _, _, _)
integrate_adaptive(lf, tr, x, t, te, dt, count) ==
  IF t < te
    THEN LET d  == IF te < t + dt THEN te - t ELSE dt
             st == try_step(lf, tr, x, t, d)
         IN IF st.ok
              THEN integrate_adaptive(lf, tr, st.x, st.t, te, st.dt, count + 1)
              ELSE [ok |-> FALSE, x |-> x, steps |-> count]
    ELSE [ok |-> TRUE, x |-> x, steps |-> count]

\* compute_cost that returns the integral alone, as the trapezoidal
\* variant would without its final addition
compute_cost_overwrite(s, term_cost, lf, tr) ==
  LET r == integrate_adaptive(lf, tr, term_cost[1], s.t0_, s.tf_ - Eps, Dt0, 0)
  IN [ok |-> r.ok, term_cost |-> <<r.x - term_cost[1]>>, steps |-> r.steps,
      integ |-> <<s.t0_, s.tf_ - Eps>>]

\* compute_cost with the sign of eps slipped: integrates to tf_ + eps
compute_cost_plus_eps(s, term_cost, lf, tr) ==
  LET r == integrate_adaptive(lf, tr, term_cost[1], s.t0_, s.tf_ + Eps, Dt0, 0)
  IN [ok |-> r.ok, term_cost |-> <<r.x>>, steps |-> r.steps,
      integ |-> <<s.t0_, s.tf_ + Eps>>]

\* cost::compute_cost: integrates in place in term_cost from t0_ to tf_ - eps.
compute_cost(s, term_cost, lf, tr) ==
  LET r == integrate_adaptive(lf, tr, term_cost[1], s.t0_, s.tf_ - Eps, Dt0, 0)
  IN [ok |-> r.ok, term_cost |-> <<r.x>>, steps |-> r.steps,
      integ |-> <<s.t0_, s.tf_ - Eps>>]

\* update that adds the terminal cost to J1_[0] instead of assigning it
update_accumulate(s, lf, tr, Pm) ==
  LET s1 == [s EXCEPT !.t0_ = begin(lf), !.tf_ = end(lf)]
      tc == get_term_cost(s1, lf, tr, Pm)
  IN IF ~tc.ok
       THEN [self |-> tc.self, outcome |-> "SamplingOutOfRange",
             at |-> tc.at, integ |-> <<>>]
       ELSE LET s2 == [tc.self EXCEPT !.J1_ = <<s.J1_[1] + tc.val>>]
                cc == compute_cost(s2, s2.J1_, lf, tr)
            IN IF cc.ok
                 THEN [self |-> [s2 EXCEPT !.J1_ = cc.term_cost,
                                           !.J1steps_ = cc.steps],
                       outcome |-> "ok", at |-> tc.at, integ |-> cc.integ]
                 ELSE [self |-> [s2 EXCEPT !.J1_ = cc.term_cost],
                       outcome |-> "SamplingOutOfRange",
                       at |-> tc.at, integ |-> cc.integ]

\* cost::update.  The result carries the members after the call and what
\* the call did; outcome is "ok" when it returned.
update(s, lf, tr, Pm) ==
  LET s1 == [s EXCEPT !.t0_ = begin(lf), !.tf_ = end(lf)]
      tc == get_term_cost(s1, lf, tr, Pm)
  IN IF ~tc.ok
       THEN [self |-> tc.self, outcome |-> "SamplingOutOfRange",
             at |-> tc.at, integ |-> <<>>]
       ELSE LET s2 == [tc.self EXCEPT !.J1_ = <<tc.val>>]
                cc == compute_cost(s2, s2.J1_, lf, tr)
            IN IF cc.ok
                 THEN [self |-> [s2 EXCEPT !.J1_ = cc.term_cost,
                                           !.J1steps_ = cc.steps],
                       outcome |-> "ok", at |-> tc.at, integ |-> cc.integ]
                 ELSE [self |-> [s2 EXCEPT !.J1_ = cc.term_cost],
                       outcome |-> "SamplingOutOfRange",
                       at |-> tc.at, integ |-> cc.integ]

\* cost::operator double
operator_double(s) == s.J1_[1]

\* cost::steps
steps(s) == s.J1steps_

\* ---- the state machine ---------------------------------------------------
\* cost::cost.  J1_(1) and x_tf_(xlen) are zero-filled vectors; mx_tf_ is
\* left uninitialized by the constructor, so it holds any value.
Init ==
  /\ J1_ = <<0>> /\ J1steps_ = 0 /\ t0_ = 0 /\ tf_ = 0
  /\ x_tf_ = <<0, 0>>
  /\ mx_tf_ \in {<<0, 0>>, <<1, -1>>}
  /\ mxdes_tf_ = <<0, 0>>
  /\ m_lofx \in Lofxs /\ m_x_intp \in Trajs /\ P \in Ps
  /\ lastOp = "none" /\ outcome = "ok" /\ ret = <<>>
  /\ sampledAt = -1 /\ integ = <<>> /\ valid = FALSE /\ reps = 0

SetObj(s) ==
  /\ J1_' = s.J1_ /\ J1steps_' = s.J1steps_ /\ t0_' = s.t0_ /\ tf_' = s.tf_
  /\ x_tf_' = s.x_tf_ /\ mx_tf_' = s.mx_tf_ /\ mxdes_tf_' = s.mxdes_tf_

\* update() that writes the wrapped final state back into the interpolator
Call_update_writeback ==
  LET r == update(self, m_lofx, m_x_intp, P)
  IN /\ SetObj(r.self)
     /\ m_x_intp' = [m_x_intp EXCEPT !.a = AngleWrap(@)]
     /\ UNCHANGED <<m_lofx, P>>
     /\ lastOp' = "update" /\ outcome' = r.outcome /\ ret' = <<>>
     /\ sampledAt' = r.at /\ integ' = r.integ
     /\ valid' = (valid \/ r.outcome = "ok")
     /\ reps' = IF reps = 0 THEN 1 ELSE 2

\* a caller runs update()
Call_update ==
  LET r == update(self, m_lofx, m_x_intp, P)
  IN /\ SetObj(r.self)
     /\ UNCHANGED env
     /\ lastOp' = "update" /\ outcome' = r.outcome /\ ret' = <<>>
     /\ sampledAt' = r.at /\ integ' = r.integ
     /\ valid' = (valid \/ r.outcome = "ok")
     /\ reps' = IF reps = 0 THEN 1 ELSE 2

\* a caller runs get_dmdx()
Call_get_dmdx ==
  LET r == get_dmdx(self, m_lofx, m_x_intp, P)
  IN /\ SetObj(r.self)
     /\ UNCHANGED env
     /\ lastOp' = "get_dmdx"
     /\ outcome' = IF r.ok THEN "ok" ELSE "SamplingOutOfRange"
     /\ ret' = r.val
     /\ sampledAt' = r.at /\ integ' = <<>>
     /\ UNCHANGED <<valid, reps>>

\* a caller runs the public get_term_cost() directly: the members it
\* assigns change, J1_ and J1steps_ do not, and it returns the terminal cost
Call_get_term_cost ==
  LET r == get_term_cost(self, m_lofx, m_x_intp, P)
  IN /\ SetObj(r.self)
     /\ UNCHANGED env
     /\ lastOp' = "get_term_cost"
     /\ outcome' = IF r.ok THEN "ok" ELSE "SamplingOutOfRange"
     /\ ret' = IF r.ok THEN <<r.val>> ELSE <<>>
     /\ sampledAt' = r.at /\ integ' = <<>>
     /\ UNCHANGED <<valid, reps>>

\* the terminal cost vector a caller hands to compute_cost()
TermCosts == {<<Second>>}

\* a caller runs the public compute_cost() directly on a vector of its own:
\* it integrates over the members t0_, tf_ as the last call left them,
\* changes no member and returns the step count (ret: the caller's vector
\* after the call and the step count)
Call_compute_cost ==
  \E term_cost \in TermCosts :
    LET r == compute_cost(self, term_cost, m_lofx, m_x_intp)
    IN /\ UNCHANGED <<obj, env>>
       /\ lastOp' = "compute_cost"
       /\ outcome' = IF r.ok THEN "ok" ELSE "SamplingOutOfRange"
       /\ ret' = IF r.ok THEN <<r.term_cost[1], r.steps>> ELSE <<>>
       /\ sampledAt' = -1 /\ integ' = r.integ
       /\ UNCHANGED <<valid, reps>>

\* a caller converts the object to double
Call_operator_double ==
  /\ UNCHANGED <<obj, env>>
  /\ lastOp' = "double" /\ outcome' = "ok" /\ ret' = <<operator_double(self)>>
  /\ sampledAt' = -1 /\ integ' = <<>>
  /\ UNCHANGED <<valid, reps>>

\* a caller reads steps()
Call_steps ==
  /\ UNCHANGED <<obj, env>>
  /\ lastOp' = "steps" /\ outcome' = "ok" /\ ret' = <<steps(self)>>
  /\ sampledAt' = -1 /\ integ' = <<>>
  /\ UNCHANGED <<valid, reps>>

Changed ==
  /\ UNCHANGED obj
  /\ lastOp' = "set" /\ outcome' = "ok" /\ ret' = <<>>
  /\ sampledAt' = -1 /\ integ' = <<>> /\ reps' = 0
  /\ UNCHANGED valid

\* the control loop moves the window or changes the running cost
SetWindow ==
  /\ \E lf \in Lofxs : lf # m_lofx /\ m_lofx' = lf
  /\ UNCHANGED <<m_x_intp, P>>
  /\ Changed

\* the control loop updates the trajectory of the state interpolator
SetTrajectory ==
  /\ \E tr \in Trajs : tr # m_x_intp /\ m_x_intp' = tr
  /\ UNCHANGED <<m_lofx, P>>
  /\ Changed

\* the surrounding system reconfigures the cost matrix
SetP ==
  /\ \E Pm \in Ps : Pm # P /\ P' = Pm
  /\ UNCHANGED <<m_lofx, m_x_intp>>
  /\ Changed

Next ==
  \/ Call_update
  \/ Call_get_dmdx
  \/ Call_get_term_cost
  \/ Call_compute_cost
  \/ Call_operator_double
  \/ Call_steps
  \/ SetWindow
  \/ SetTrajectory
  \/ SetP

Spec == Init /\ [][Next]_vars


\* ---- properties ----------------------------------------------------------
TypeOK ==
  /\ Len(J1_) = 1 /\ J1steps_ \in Nat /\ t0_ \in Times /\ tf_ \in Times
  /\ Len(x_tf_) = xlen /\ m_lofx \in Lofxs /\ m_x_intp \in Trajs /\ P \in Ps
  /\ valid \in BOOLEAN /\ reps \in 0..2

\* m(x(tf)) of the present inputs, as get_term_cost computes it
TermNow == get_term_cost(self, m_lofx, m_x_intp, P).val

\* C1: after an update() that returned on a window t0 <= tf with the
\* constant running cost rate c, the stored total cost is within the
\* absolute tolerance of terminal_cost(tf) + c*(tf - t0).
C1_IntegrationConsistency ==
  (lastOp = "update" /\ outcome = "ok" /\ begin(m_lofx) <= end(m_lofx)) =>
    Abs(J1_[1] - (TermNow + m_lofx.c * (end(m_lofx) - begin(m_lofx)))) <= AbsTol

C1_Witness ==
  /\ lastOp = "update" /\ outcome = "ok" /\ begin(m_lofx) < end(m_lofx)
  /\ m_lofx.c > 0 /\ TermNow > 0 /\ J1steps_ > 1 /\ J1_[1] > TermNow

\* C2: after an update() that returned on a zero-length window, the stored
\* total cost is exactly terminal_cost(tf) and the step count is 0.
C2_ZeroLengthWindow ==
  (lastOp = "update" /\ outcome = "ok" /\ begin(m_lofx) = end(m_lofx)) =>
    (J1_[1] = TermNow /\ J1steps_ = 0)

C2_Witness ==
  /\ lastOp = "update" /\ outcome = "ok" /\ begin(m_lofx) = end(m_lofx)
  /\ m_lofx.c > 0 /\ J1_[1] > 0 /\ J1steps_ = 0

\* C3: an update() on a window with t0 > tf does not complete normally.
C3_InvalidWindowFails ==
  (lastOp = "update" /\ begin(m_lofx) > end(m_lofx)) => outcome # "ok"

\* C4: when tf is outside the range the interpolator covers, update() and
\* get_dmdx() end with SamplingOutOfRange, return nothing and run no
\* integration.
C4_SamplingOutOfRange ==
  (lastOp \in {"update", "get_dmdx"} /\ ~Covers(m_x_intp, end(m_lofx))) =>
    (outcome = "SamplingOutOfRange" /\ integ = <<>> /\ ret = <<>>)

C4_Witness ==
  /\ lastOp = "update" /\ end(m_lofx) > m_x_intp.hi
  /\ begin(m_lofx) < end(m_lofx) /\ Covers(m_x_intp, begin(m_lofx))
  /\ outcome = "SamplingOutOfRange" /\ integ = <<>>

\* C5: converting the object to double before any update() has returned
\* does not yield a number.
C5_ReadBeforeUpdateFails ==
  (lastOp = "double" /\ ~valid) => (outcome # "ok" \/ ret = <<>>)

\* C6: an update() call made while the inputs are unchanged since an
\* earlier update() call leaves the stored total cost and step count as
\* that earlier call left them (get_dmdx() calls in between included).
C6_UpdateIdempotent ==
  [][(Call_update /\ reps >= 1) => (J1_' = J1_ /\ J1steps_' = J1steps_)]_vars

C6_Witness ==
  /\ lastOp = "update" /\ reps = 2 /\ outcome = "ok"
  /\ J1steps_ > 0 /\ J1_[1] > 0

\* C7: right after every update() and get_dmdx() call, the time at which
\* the state and the reference were sampled is the integrand's end(), the
\* members t0_ and tf_ are its begin() and end(), and the bounds handed to
\* the integrator are begin() and end() - eps.
C7_WindowNeverStale ==
  lastOp \in {"update", "get_dmdx"} =>
    /\ sampledAt = end(m_lofx)
    /\ t0_ = begin(m_lofx) /\ tf_ = end(m_lofx)
    /\ integ # <<>> => integ = <<begin(m_lofx), end(m_lofx) - Eps>>

C7_Witness ==
  /\ lastOp = "get_dmdx" /\ outcome = "ok" /\ valid /\ reps = 0
  /\ sampledAt = end(m_lofx) /\ end(m_lofx) > 0

\* C8: update() leaves the integrand's window, the trajectory of the
\* state interpolator and P as they were.
C8_UpdateFrame ==
  [][Call_update => UNCHANGED <<m_lofx, m_x_intp, P>>]_vars

C8_Witness ==
  /\ lastOp = "update" /\ outcome = "ok" /\ reps = 1
  /\ J1_[1] > 0 /\ J1steps_ > 0
  /\ AngleWrap(m_x_intp.a) # m_x_intp.a

\* (x - x_des)^T P for the state sampled, wrapped and projected at end()
ExpectedGradient ==
  LET x  == Sample(m_x_intp, end(m_lofx))
      xd == get_DesTraj(end(m_lofx))
      d1 == AngleWrap(x[1]) - xd[1]
      d2 == x[2] - xd[2]
  IN <<d1 * P[1] + d2 * P[2], d1 * P[2] + d2 * P[3]>>

\* C9: get_dmdx() returns whenever the interpolator covers end(), whether
\* or not update() has run, and what it returns is (x - x_des)^T P at end().
C9_GradientWithoutUpdate ==
  lastOp = "get_dmdx" =>
    /\ (outcome = "ok") = Covers(m_x_intp, end(m_lofx))
    /\ outcome = "ok" => ret = ExpectedGradient

C9_Witness ==
  /\ lastOp = "get_dmdx" /\ outcome = "ok" /\ ~valid
  /\ ret = ExpectedGradient /\ ret[1] # 0 /\ ret[2] # 0
  /\ AngleWrap(Sample(m_x_intp, end(m_lofx))[1]) # Sample(m_x_intp, end(m_lofx))[1]

\* C10: a get_dmdx() call and an update() call that fails leave the stored
\* total cost and step count as they were.
C10_StoredPairIsLastSuccess ==
  [][(Call_get_dmdx \/ (Call_update /\ outcome' # "ok"))
       => UNCHANGED <<J1_, J1steps_>>]_vars

====
